---- MODULE Spec2Model ----
(***************************************************************************)
(* Model of attrWidgets.py: Qt attribute widgets bound to Maya plugs.      *)
(*                                                                         *)
(* One binding (one widget instance) is modelled together with the Maya    *)
(* scene it talks to and the Qt controls it owns.  Every method of the     *)
(* widget is an operator from machine state to machine state (a record     *)
(* holding the widget's fields, the scene and the log of what the call     *)
(* did); every entry point (public method, Qt signal, Maya callback, idle  *)
(* callback, scene edit) is an action that runs the whole call chain.      *)
(*                                                                         *)
(* Values are encoded as integers, the falsy value of each kind being 0:   *)
(*   string  0 = "", 1 = "a"                                               *)
(*   enum    the index of the option                                       *)
(*   bool    0 = False, 1 = True                                           *)
(*   integer the integer                                                   *)
(*   float   fixed point, in units of 1/Scale (2500 = 2.5)                 *)
(***************************************************************************)
EXTENDS Integers, Sequences, FiniteSets, TLC

VARIABLES
    widgetClass,              \* the concrete class of the widget (fixed at construction)
    store,                    \* the Maya scene: plug string -> value, or Missing
    _attributeDefaults,       \* self._attributeDefaults['value']
    _value,                   \* self._value
    _isConnected,             \* self._isConnected
    _sceneAttributeData,      \* self._sceneAttributeData (the override bundle)
    _deferredUpdateRequest,   \* len(self._deferredUpdateRequest)
    _nodeCallbacks,           \* self._nodeCallbacks: the live MCallbackIdWrappers
    evalDeferred,             \* idle callbacks scheduled by cmds.evalDeferred, not yet run
    control,                  \* value shown by the line edit / combo box / spin box / check box
    slider,                   \* raw position of the slider (two-control classes)
    listeners,                \* how often each control's change signal is connected
    op                        \* the last operation and what it did

vars == <<widgetClass, store, _attributeDefaults, _value, _isConnected,
          _sceneAttributeData, _deferredUpdateRequest, _nodeCallbacks,
          evalDeferred, control, slider, listeners, op>>

-----------------------------------------------------------------------------
(* Bounds of the model *)

\* markers the deferred-update list may hold
MaxPending == 2
\* idle callbacks that may be outstanding
MaxDeferred == 2

-----------------------------------------------------------------------------
(* Program constants *)

K_FLOAT_WIDGET_FACTOR == 100
\* QDoubleSpinBox.setDecimals(3): floats are kept in units of 1/1000
Scale == 1000
K_FLOAT_ATTR_MINIMUM == 0
K_FLOAT_ATTR_MAXIMUM == 10000
K_INTEGER_SOFT_MINIMUM == 0
K_INTEGER_SOFT_MAXIMUM == 10000

\* Python's None
None == -1
\* a plug that does not exist in the scene
Missing == -2
\* what data.get(prop, GARBAGE_TEST) gives for a key the bundle does not hold
GARBAGE_TEST == -3

K_OVR_PLUG_OVERRIDE_DATA_KEYS == "overridePlug"

StringClass      == "StringAttributeWidget"
EnumClass        == "EnumAttributeWidget"
FloatSimpleClass == "FloatNumericSimpleAttributeWidget"
FloatClass       == "FloatNumericAttributeWidget"
IntSimpleClass   == "IntegerNumericSimpleAttributeWidget"
IntClass         == "IntegerNumericAttributeWidget"
BoolClass        == "BoolAttributeWidget"

WidgetClasses == {StringClass, EnumClass, FloatSimpleClass, FloatClass,
                  IntSimpleClass, IntClass, BoolClass}

IsFloat(c)      == c \in {FloatSimpleClass, FloatClass}
IsInteger(c)    == c \in {IntSimpleClass, IntClass}
IsNumeric(c)    == IsFloat(c) \/ IsInteger(c)
HasSlider(c)    == c \in {FloatClass, IntClass}

\* the values a plug of the widget's kind takes in the model
Values(c) ==
    IF IsFloat(c) THEN {0, 2500}
    ELSE {0, 1}

\* the raw positions a user drags the slider to
SliderPositions(c) == IF c = FloatClass THEN {0, 250} ELSE {0, 1}

\* the binding's own plug '{node}.{attribute}' and the plug of an override node
PlugString == "node.attr"
OverridePlug == "ovrNode.attr"
Plugs == {PlugString, OverridePlug}

\* the entry of a bundle that is not there (dict.get's default)
Absent == "<absent>"

\* Python truthiness of a value: None, 0, 0.0, '' and False are falsy
Falsy(v) == v = None \/ v = 0


-----------------------------------------------------------------------------
(* The machine state a call works on, and the log of what the call did *)

\* the state the next call starts from
Cur == [store                  |-> store,
        _value                 |-> _value,
        _isConnected           |-> _isConnected,
        _sceneAttributeData    |-> _sceneAttributeData,
        _deferredUpdateRequest |-> _deferredUpdateRequest,
        _nodeCallbacks         |-> _nodeCallbacks,
        evalDeferred           |-> evalDeferred,
        control                |-> control,
        slider                 |-> slider,
        listeners              |-> listeners,
        rejects                |-> FALSE,
        log                    |-> <<>>,
        raised                 |-> "",
        ret                    |-> None]

\* the same, in a scene that rejects the writes of the call when rejects is
\* TRUE: Maya's setAttr raises RuntimeError on a plug that is locked or driven
\* by a connection
CurIn(rejects) == [Cur EXCEPT !.rejects = rejects]

\* one entry of the log: what happened (e), to what (a), with which value (v)
Event(e, a, v) == [e |-> e, a |-> a, v |-> v]
Log(s, e, a, v) == [s EXCEPT !.log = Append(@, Event(e, a, v))]

\* a Python exception starts unwinding the call: s.raised names it, and every
\* statement reached while it unwinds leaves the state as it is
Raise(s, exc) == [s EXCEPT !.raised = exc]
Return(s, val) == IF s.raised # "" THEN s ELSE [s EXCEPT !.ret = val]

\* `except Exception`: the exception is logged as a warning about `what`
Except(s, what) ==
    IF s.raised # "" THEN Log([s EXCEPT !.raised = ""], "warning", what, 0) ELSE s

-----------------------------------------------------------------------------
(* Maya: the scene, the dirty-plug callbacks, the idle queue *)

\* splitPlugString(plugString)[0]: the node part of 'node.attr'
splitPlugString(plugString) ==
    IF plugString = PlugString THEN "node"
    ELSE IF plugString = OverridePlug THEN "ovrNode"
    ELSE ""

getNodeFromPlugString(plugString) == splitPlugString(plugString)

\* cmds.objExists(plug)
objExists(s, plug) == plug \in Plugs /\ s.store[plug] # Missing

\* cmds.evalDeferred(self._processDeferredUpdateRequest, low=True)
cmds_evalDeferred(s) == Log([s EXCEPT !.evalDeferred = @ + 1], "evalDeferred", "", 0)

\* _onDirtyPlug as it would be if it adopted the plug's value on the spot,
\* inside the notification
onDirtyPlugAdopting(s) ==
    IF s._deferredUpdateRequest = 0
    THEN cmds_evalDeferred(Log([s EXCEPT !._deferredUpdateRequest = 1,
                                         !._value = s.store[PlugString]],
                               "_onDirtyPlug", "", 0))
    ELSE Log([s EXCEPT !._deferredUpdateRequest = @ + 1,
                       !._value = s.store[PlugString]],
             "_onDirtyPlug", "", 0)

\* _onDirtyPlug: append a marker; the first marker schedules the idle callback
onDirtyPlug(s) ==
    IF s._deferredUpdateRequest = 0
    THEN cmds_evalDeferred(Log([s EXCEPT !._deferredUpdateRequest = 1],
                               "_onDirtyPlug", "", 0))
    ELSE Log([s EXCEPT !._deferredUpdateRequest = @ + 1], "_onDirtyPlug", "", 0)

\* Maya runs, inside the call that dirties a plug of `node`, the dirty-plug
\* callback of every live MCallbackIdWrapper registered on that node
RECURSIVE NodeDirtyPlug(_, _, _)
NodeDirtyPlug(s, node, callbacks) ==
    IF callbacks = <<>> THEN s
    ELSE NodeDirtyPlug(IF Head(callbacks) = node THEN onDirtyPlug(s) ELSE s,
                       node, Tail(callbacks))

\* cmds.getAttr(plug), called at source line `line`: the value in s.ret, or
\* an exception when the plug is gone
cmds_getAttr(s, plug, line) ==
    IF s.raised # "" THEN s
    ELSE IF ~objExists(s, plug) THEN Raise(Log(s, "getAttr", plug, line), "ValueError")
    ELSE Return(Log(s, "getAttr", plug, line), s.store[plug])

\* cmds.setAttr(plug, value): Maya rejects a value that is not of the plug's
\* type (None) and a plug that does not exist; a write dirties the plug
cmds_setAttr(s, plug, val) ==
    IF s.raised # "" THEN s
    ELSE IF ~objExists(s, plug) \/ val = None \/ s.rejects
    THEN Raise(Log(s, "setAttr", plug, val), "RuntimeError")
    ELSE NodeDirtyPlug(Log([s EXCEPT !.store[plug] = val], "setAttr", plug, val),
                       splitPlugString(plug), s._nodeCallbacks)

-----------------------------------------------------------------------------
(* BaseAttributeWidget: writing through *)

\* `not self._sceneAttributeData.get(K_OVR_PLUG_OVERRIDE_DATA_KEYS, None)`
NoOverrideTarget(s) == s._sceneAttributeData.overridePlug \in {Absent, ""}

\* the local _plugString of _onGetAttr, _onSetAttr and connectToNode: the
\* bundle's override plug when the bundle is not empty, else the binding's plug
EffectivePlug(s) ==
    IF s._sceneAttributeData.nonEmpty THEN s._sceneAttributeData.overridePlug
    ELSE PlugString

\* the try/except of _onSetAttr as it would be with the lines commented out
\* at 315-316 in force: after a rejected write the value is read back from
\* the store and cached
trySetAttrReadingBack(s, _plugString) ==
    IF s.raised # "" THEN s
    ELSE IF cmds_setAttr(s, _plugString, s._value).raised = ""
    THEN cmds_setAttr(s, _plugString, s._value)
    ELSE [Except(cmds_getAttr(Except(cmds_setAttr(s, _plugString, s._value),
                                     _plugString),
                              _plugString, 315),
                 _plugString)
          EXCEPT !._value = s.store[_plugString]]

\* the try/except of _onSetAttr around cmds.setAttr(_plugString, self._value)
trySetAttr(s, _plugString) ==
    IF s.raised # "" THEN s
    ELSE Except(cmds_setAttr(s, _plugString, s._value), _plugString)

\* _onSetAttr(force) as it would be without the test of self._isConnected
onSetAttrWhenDisconnected(s, force) ==
    IF s.raised # "" THEN s
    ELSE IF s._sceneAttributeData.nonEmpty /\ NoOverrideTarget(s) THEN s
    ELSE trySetAttr(cmds_getAttr(s, PlugString, 305), EffectivePlug(s))

\* _onSetAttr(force)
onSetAttr(s, force) ==
    IF s.raised # "" THEN s
    ELSE IF ~force /\ ~s._isConnected THEN s
    ELSE IF s._sceneAttributeData.nonEmpty /\ NoOverrideTarget(s) THEN s
    ELSE trySetAttr(cmds_getAttr(s, PlugString, 305), EffectivePlug(s))

\* self.valueChanged.emit()
emitValueChanged(s) ==
    IF s.raised # "" THEN s ELSE Log(s, "emit", "valueChanged", 0)

\* self._value = val
assignValue(s, val) == IF s.raised # "" THEN s ELSE [s EXCEPT !._value = val]

-----------------------------------------------------------------------------
(* Qt: controls, their change signals and the slots connected to them *)

Clamp(v, lo, hi) == IF v < lo THEN lo ELSE IF v > hi THEN hi ELSE v

\* whether the control's setter takes v (setText takes None as the empty
\* string; setValue, setChecked and setCurrentIndex raise TypeError on None)
QtAccepts(c, v) == (c = "control" /\ widgetClass = StringClass) \/ v # None

\* what the control shows once set to v
QtShows(c, v) ==
    IF c = "slider"
    THEN IF widgetClass = FloatClass
         THEN Clamp(v, K_FLOAT_ATTR_MINIMUM * K_FLOAT_WIDGET_FACTOR,
                       K_FLOAT_ATTR_MAXIMUM * K_FLOAT_WIDGET_FACTOR)
         ELSE Clamp(v, K_INTEGER_SOFT_MINIMUM, K_INTEGER_SOFT_MAXIMUM)
    ELSE IF widgetClass = StringClass THEN (IF v = None THEN 0 ELSE v)
    ELSE IF IsFloat(widgetClass)
         THEN Clamp(v, K_FLOAT_ATTR_MINIMUM * Scale, K_FLOAT_ATTR_MAXIMUM * Scale)
    ELSE IF IsInteger(widgetClass)
         THEN Clamp(v, K_INTEGER_SOFT_MINIMUM, K_INTEGER_SOFT_MAXIMUM)
    ELSE IF widgetClass = BoolClass THEN (IF v = 0 THEN 0 ELSE 1)
    ELSE v

QtValue(s, c) == IF c = "slider" THEN s.slider ELSE s.control

\* the control c shows v
QtShow(s, c, v) ==
    IF c = "slider" THEN [s EXCEPT !.slider = v] ELSE [s EXCEPT !.control = v]

\* signal.disconnect(slot): RuntimeError when the slot is not connected
QtDisconnect(s, c) ==
    IF s.raised # "" THEN s
    ELSE IF s.listeners[c] = 0 THEN Raise(s, "RuntimeError")
    ELSE [s EXCEPT !.listeners[c] = @ - 1]

\* signal.connect(slot)
QtConnect(s, c) ==
    IF s.raised # "" THEN s ELSE [s EXCEPT !.listeners[c] = @ + 1]

\* a float times / divided by float(K_FLOAT_WIDGET_FACTOR), in units of 1/Scale
TimesFactor(v) == v * K_FLOAT_WIDGET_FACTOR
OverFactor(v) == v \div K_FLOAT_WIDGET_FACTOR
\* a float handed to a setter that takes an int, and an int read as a float
FloatToInt(v) == v \div Scale
IntToFloat(p) == p * Scale

\* control.setValue / setText / setChecked: sets what the control shows and,
\* when that changes, emits the change signal to the connected slots
RECURSIVE QtSetValue(_, _, _)

\* _silentSpinBoxUpdate(val)
silentSpinBoxUpdate(s, val) ==
    QtConnect(QtSetValue(QtDisconnect(s, "control"), "control", val), "control")

\* _silentSliderUpdate(val) as it would be without the disconnect and connect
\* around the setValue
silentSliderUpdateAttached(s, val) ==
    QtSetValue(s, "slider",
               IF val = None THEN None
               ELSE IF widgetClass = FloatClass THEN FloatToInt(TimesFactor(val))
               ELSE val)

\* _silentSliderUpdate(val): the float slider is set to val * factor
silentSliderUpdate(s, val) ==
    QtConnect(QtSetValue(QtDisconnect(s, "slider"), "slider",
                         IF val = None THEN None
                         ELSE IF widgetClass = FloatClass
                         THEN FloatToInt(TimesFactor(val))
                         ELSE val),
              "slider")

\* _widgetUpdated of the widget's class
widgetUpdated(s) ==
    IF s.raised # "" THEN s
    ELSE emitValueChanged(onSetAttr(IF IsNumeric(widgetClass) THEN s
                                    ELSE [s EXCEPT !._value = s.control],
                                    FALSE))

\* _spinBoxUpdated(val)
spinBoxUpdated(s, val) ==
    widgetUpdated(assignValue(IF HasSlider(widgetClass)
                              THEN silentSliderUpdate(s, val) ELSE s,
                              val))

\* _sliderUpdated(val)
sliderUpdated(s, val) ==
    IF widgetClass = FloatClass
    THEN widgetUpdated(silentSpinBoxUpdate(
             [s EXCEPT !._value = OverFactor(IntToFloat(val))],
             OverFactor(IntToFloat(val))))
    ELSE widgetUpdated(assignValue(silentSpinBoxUpdate(s, val), val))

\* the slot _setupSocketConnections connects to control c's change signal
Slot(s, c, v) ==
    IF c = "slider" THEN sliderUpdated(Log(s, "slot", c, v), v)
    ELSE IF IsNumeric(widgetClass) THEN spinBoxUpdated(Log(s, "slot", c, v), v)
    ELSE widgetUpdated(Log(s, "slot", c, v))

\* PySide prints an exception a slot raises and goes on
SlotReturned(s) ==
    IF s.raised # "" THEN Log([s EXCEPT !.raised = ""], "slotRaised", s.raised, 0)
    ELSE s

\* a signal runs each of the n connections of the slot
RECURSIVE QtEmit(_, _, _, _)
QtEmit(s, c, v, n) ==
    IF n = 0 THEN s
    ELSE QtEmit(SlotReturned(Slot(s, c, v)), c, v, n - 1)

QtSetValue(s, c, v) ==
    IF s.raised # "" THEN s
    ELSE IF ~QtAccepts(c, v) THEN Raise(s, "TypeError")
    ELSE IF QtShows(c, v) = QtValue(s, c) THEN s
    ELSE QtEmit(QtShow(s, c, QtShows(c, v)), c, QtShows(c, v), s.listeners[c])

-----------------------------------------------------------------------------
(* The widget classes: showing self._value *)

\* StringAttributeWidget._updateWidgetValues, up to the call of the base class
stringUpdateWidgetValues(s) ==
    IF s._value # s.control
    THEN QtConnect(QtSetValue(QtDisconnect(s, "control"), "control", s._value),
                   "control")
    ELSE s

\* EnumAttributeWidget._silentUpdateSelf
silentUpdateSelf(s) ==
    QtConnect(QtSetValue(QtDisconnect(s, "control"), "control", s._value), "control")

\* EnumAttributeWidget._updateWidgetValues, up to the call of the base class:
\* the statement `self._silentUpdateSelf` names the method and does not call it
enumUpdateWidgetValues(s) == s

\* Float/IntegerNumericSimpleAttributeWidget._updateWidgetValues, up to the
\* call of the base class
spinUpdateWidgetValues(s) ==
    IF s._value # s.control THEN silentSpinBoxUpdate(s, s._value) ELSE s

\* the slider part of Float/IntegerNumericAttributeWidget._updateWidgetValues
sliderUpdateWidgetValues(s) ==
    IF s.raised # "" \/ ~HasSlider(widgetClass) THEN s
    ELSE IF widgetClass = FloatClass
    THEN IF s._value = OverFactor(IntToFloat(s.slider)) THEN s
         ELSE IF s._value = None THEN Raise(s, "TypeError")
         ELSE silentSliderUpdate(s, TimesFactor(s._value))
    ELSE IF s._value # s.slider THEN silentSliderUpdate(s, s._value) ELSE s

\* BoolAttributeWidget._updateWidgetValues as it would be if, like the
\* enumeration's, it did not set its control
boolUpdateWidgetValuesUnset(s) == s

\* BoolAttributeWidget._updateWidgetValues, up to the call of the base class
boolUpdateWidgetValues(s) == QtSetValue(s, "control", s._value)

\* the control part of _updateWidgetValues of the widget's class
controlUpdateWidgetValues(s) ==
    IF widgetClass = StringClass THEN stringUpdateWidgetValues(s)
    ELSE IF widgetClass = EnumClass THEN enumUpdateWidgetValues(s)
    ELSE IF widgetClass = BoolClass THEN boolUpdateWidgetValues(s)
    ELSE spinUpdateWidgetValues(s)

\* _updateWidgetValues of the widget's class: the control, the base class's
\* valueChanged.emit(), then the slider
updateWidgetValues(s) ==
    IF s.raised # "" THEN s
    ELSE sliderUpdateWidgetValues(emitValueChanged(controlUpdateWidgetValues(s)))

-----------------------------------------------------------------------------
(* BaseAttributeWidget: reading through, the value property, the idle callback *)

\* _onGetAttr from `if not _val` on: r.ret is the _val that was read
adoptValue(r) ==
    IF r.raised # "" THEN r
    ELSE IF Falsy(r.ret) THEN Return(r, None)
    ELSE Return(updateWidgetValues(Log([r EXCEPT !._value = r.ret],
                                       "adopt", "", r.ret)),
                r.ret)

\* _onGetAttr as it would be without the test of self._isConnected at its top
onGetAttrAnyMode(s) ==
    IF s.raised # "" THEN s
    ELSE IF s._sceneAttributeData.nonEmpty /\ NoOverrideTarget(s)
    THEN Return(Log(s, "call", "_onGetAttr", 0), None)
    ELSE adoptValue(cmds_getAttr(Log(s, "call", "_onGetAttr", 0), EffectivePlug(s),
                                 IF s._sceneAttributeData.nonEmpty THEN 278 ELSE 280))

\* _onGetAttr
onGetAttr(s) ==
    IF s.raised # "" THEN s
    ELSE IF ~s._isConnected THEN Return(Log(s, "call", "_onGetAttr", 0), None)
    ELSE IF s._sceneAttributeData.nonEmpty /\ NoOverrideTarget(s)
    THEN Return(Log(s, "call", "_onGetAttr", 0), None)
    ELSE adoptValue(cmds_getAttr(Log(s, "call", "_onGetAttr", 0), EffectivePlug(s),
                                 IF s._sceneAttributeData.nonEmpty THEN 278 ELSE 280))

\* the setter of the `value` property
valueSetter(s, val) ==
    IF s.raised # "" THEN s
    ELSE updateWidgetValues(onSetAttr([s EXCEPT !._value = val], FALSE))

\* `self._deferredUpdateRequest = list()`
clearDeferredUpdateRequest(s) ==
    IF s.raised # "" THEN s ELSE [s EXCEPT !._deferredUpdateRequest = 0]

\* _processDeferredUpdateRequest as it would be if it refreshed once for every
\* marker queued
RECURSIVE onGetAttrTimes(_, _)
onGetAttrTimes(s, n) == IF n = 0 THEN s ELSE onGetAttrTimes(onGetAttr(s), n - 1)
processEveryDeferredUpdateRequest(s) ==
    clearDeferredUpdateRequest(
        onGetAttrTimes(Log(s, "markers", "", s._deferredUpdateRequest),
                       s._deferredUpdateRequest))

\* _processDeferredUpdateRequest; the log notes the markers it finds queued
processDeferredUpdateRequest(s) ==
    clearDeferredUpdateRequest(
        IF s._deferredUpdateRequest > 0
        THEN onGetAttr(Log(s, "markers", "", s._deferredUpdateRequest))
        ELSE Log(s, "markers", "", 0))

-----------------------------------------------------------------------------
(* BaseAttributeWidget: the public methods *)

\* `self._nodeCallbacks = list()`: the wrappers the old list held are freed,
\* and MCallbackIdWrapper.__del__ removes their callbacks
RECURSIVE releaseCallbacks(_)
releaseCallbacks(s) ==
    IF s._nodeCallbacks = <<>> THEN s
    ELSE releaseCallbacks(Log([s EXCEPT !._nodeCallbacks = Tail(@)],
                              "removeCallback", Head(s._nodeCallbacks), 0))

\* _getDependNode(node), MNodeMessage.addNodeDirtyPlugCallback and the
\* MCallbackIdWrapper appended to self._nodeCallbacks
addNodeDirtyPlugCallback(s, node) ==
    IF s.raised # "" THEN s
    ELSE IF ~\E p \in Plugs : splitPlugString(p) = node /\ objExists(s, p)
    THEN Raise(s, "RuntimeError")
    ELSE Log([s EXCEPT !._nodeCallbacks = Append(@, node)], "addCallback", node, 0)

\* `self._isConnected = True`
markConnected(s) == IF s.raised # "" THEN s ELSE [s EXCEPT !._isConnected = TRUE]

\* the pull branch of connectToNode after `_value = self._onGetAttr()`: the
\* `except` branch returns, else `self.value = _value` and the subscription
pullValue(g, _node) ==
    IF g.raised # "" THEN Except(g, PlugString)
    ELSE markConnected(addNodeDirtyPlugCallback(valueSetter(g, g.ret), _node))

\* connectToNode(pull) from `if self._isConnected` on
\* connectToNode past its first two statements as it would be if a bundle
\* without a target fell back to the binding's own plug
connectFallingBack(s, pull) ==
    IF s._isConnected THEN s
    ELSE IF s._sceneAttributeData.nonEmpty /\ NoOverrideTarget(s)
    THEN markConnected(addNodeDirtyPlugCallback(
             IF pull THEN onGetAttr(s) ELSE onSetAttr(s, TRUE),
             getNodeFromPlugString(PlugString)))
    ELSE IF ~objExists(s, EffectivePlug(s)) THEN s
    ELSE IF pull THEN pullValue(onGetAttr(s), getNodeFromPlugString(EffectivePlug(s)))
    ELSE markConnected(addNodeDirtyPlugCallback(
             onSetAttr(s, TRUE), getNodeFromPlugString(EffectivePlug(s))))

connectUnlessConnected(s, pull) ==
    IF s._isConnected THEN s
    ELSE IF s._sceneAttributeData.nonEmpty /\ NoOverrideTarget(s) THEN s
    ELSE IF ~objExists(s, EffectivePlug(s)) THEN s
    ELSE IF pull THEN pullValue(onGetAttr(s), getNodeFromPlugString(EffectivePlug(s)))
    ELSE markConnected(addNodeDirtyPlugCallback(
             onSetAttr(s, TRUE), getNodeFromPlugString(EffectivePlug(s))))

\* connectToNode(pull) as it would be without `self._nodeCallbacks = list()`:
\* the wrappers of earlier connections stay in the list
connectKeepingCallbacks(s, pull) ==
    connectUnlessConnected([s EXCEPT !._deferredUpdateRequest = 0], pull)

\* connectToNode(pull)
connectToNode(s, pull) ==
    connectUnlessConnected([releaseCallbacks(s) EXCEPT !._deferredUpdateRequest = 0],
                           pull)

\* `self._isConnected = False`; the loop `for _callback in self._nodeCallbacks:
\* del _callback` unbinds the loop variable only, the list keeps every wrapper
markDisconnected(s) == IF s.raised # "" THEN s ELSE [s EXCEPT !._isConnected = FALSE]

\* disConnectFromNode
disConnectFromNode(s) ==
    IF ~s._isConnected THEN s ELSE markDisconnected(onGetAttr(s))

\* setLiveMode(state) as it would be without the test of self._isConnected
setLiveModeUntested(s, state) ==
    IF state THEN connectToNode(s, FALSE) ELSE disConnectFromNode(s)

\* setLiveMode(state)
setLiveMode(s, state) ==
    IF state = s._isConnected THEN s
    ELSE IF state THEN connectToNode(s, FALSE)
    ELSE disConnectFromNode(s)

ALWAYS_SKIP_PROPERTIES == {"valueChanged", "staticMetaObject", "VALID_ATTR_TYPES",
                           "PUSH_SKIP_PROPERTIES", "GARBAGE_TEST"}
PUSH_SKIP_PROPERTIES == {"node", "attribute", "attributeType", "isConnected", "plugString"}

\* _getAllProperties: the properties of the class and of its direct bases
\* (every widget class has BaseAttributeWidget as the class or a direct base)
getAllProperties(c) ==
    ((IF c = EnumClass THEN {"enumValues"} ELSE {})
     \cup {"node", "attribute", "attributeType", "isConnected", "plugString", "value"})
    \ ALWAYS_SKIP_PROPERTIES

\* a bundle: the overridePlug entry, the value entry and the isConnected
\* entry of the dict, GARBAGE_TEST standing for an entry the dict lacks (the
\* entries node, attribute, attributeType and plugString are treated as the
\* isConnected entry is, and are never read back)
Bundles(c) == [overridePlug : {Absent, "", OverridePlug},
               value : Values(c) \cup {GARBAGE_TEST},
               isConnected : {GARBAGE_TEST, 0, 1}]
EmptyBundle == [overridePlug |-> Absent, value |-> GARBAGE_TEST,
                isConnected |-> GARBAGE_TEST]

\* what the widget keeps of a bundle: whether the dict is non-empty and its
\* overridePlug entry (nothing else of it is read again: stealMyData
\* overwrites the value entry of the copy it returns)
EmptyDict == [nonEmpty |-> FALSE, overridePlug |-> Absent]
AsSceneData(data) == [nonEmpty |-> TRUE, overridePlug |-> data.overridePlug]

\* resetToDefaultValue as it would be if it set the zero of the kind instead
\* of the default captured at construction
resetToZeroOfKind(s) == valueSetter(s, 0)

\* resetToDefaultValue
resetToDefaultValue(s) == valueSetter(s, _attributeDefaults)

\* stealMyData
stealMyData(s) ==
    [overridePlug |-> IF s._sceneAttributeData.nonEmpty
                      THEN s._sceneAttributeData.overridePlug ELSE Absent,
     value |-> s._value,
     isConnected |-> IF s._isConnected THEN 1 ELSE 0]

\* the turn of the property isConnected in the loop of pushInData: skipped,
\* being in PUSH_SKIP_PROPERTIES; setattr on a property that has no setter
\* raises AttributeError
pushIsConnected(s, data) ==
    IF s.raised # "" THEN s
    ELSE IF "isConnected" \in getAllProperties(widgetClass) \ PUSH_SKIP_PROPERTIES
            /\ data.isConnected # GARBAGE_TEST
    THEN Raise(s, "AttributeError")
    ELSE s

\* the turn of the property value in the loop of pushInData
pushValue(s, data) ==
    IF s.raised # "" THEN s
    ELSE IF "value" \in getAllProperties(widgetClass) \ PUSH_SKIP_PROPERTIES
            /\ data.value # GARBAGE_TEST
    THEN valueSetter(s, data.value)
    ELSE s

\* pushInData(data) as it would be if it tested the bundle's value for
\* truthiness instead of against GARBAGE_TEST
pushInDataTruthy(s, data) ==
    IF data = EmptyBundle THEN resetToDefaultValue(s)
    ELSE pushValue(pushIsConnected([s EXCEPT !._sceneAttributeData = AsSceneData(data)],
                                   data),
                   IF Falsy(data.value) THEN [data EXCEPT !.value = GARBAGE_TEST]
                   ELSE data)

\* pushInData(data) as it would be if it applied the bundle's isConnected
\* entry through setLiveMode
pushInDataLive(s, data) ==
    IF data = EmptyBundle THEN resetToDefaultValue(s)
    ELSE IF data.isConnected = GARBAGE_TEST
    THEN pushValue([s EXCEPT !._sceneAttributeData = AsSceneData(data)], data)
    ELSE pushValue(setLiveMode([s EXCEPT !._sceneAttributeData = AsSceneData(data)],
                               data.isConnected = 1),
                   data)

\* pushInData(data)
pushInData(s, data) ==
    IF data = EmptyBundle THEN resetToDefaultValue(s)
    ELSE pushValue(pushIsConnected([s EXCEPT !._sceneAttributeData = AsSceneData(data)],
                                   data),
                   data)

\* __init__ of a second binding of the same class on the same plug, in the
\* scene as it is now: the machine state its first call starts from
newBinding ==
    [Cur EXCEPT !._value = _attributeDefaults,
                !._isConnected = FALSE,
                !._sceneAttributeData = EmptyDict,
                !._deferredUpdateRequest = 0,
                !._nodeCallbacks = <<>>,
                !.evalDeferred = 0,
                !.control = _attributeDefaults,
                !.slider = IF widgetClass = FloatClass
                           THEN FloatToInt(TimesFactor(_attributeDefaults))
                           ELSE IF widgetClass = IntClass THEN _attributeDefaults
                           ELSE 0,
                !.listeners = [control |-> 1,
                               slider |-> IF HasSlider(widgetClass) THEN 1 ELSE 0]]

-----------------------------------------------------------------------------
(* The state machine *)

\* the state a call leaves, and the record of the call: its name, its
\* argument, what it did and the exception it ended with
Commit(s, name, arg) ==
    /\ store' = s.store
    /\ _value' = s._value
    /\ _isConnected' = s._isConnected
    /\ _sceneAttributeData' = s._sceneAttributeData
    /\ _deferredUpdateRequest' = s._deferredUpdateRequest
    /\ _nodeCallbacks' = s._nodeCallbacks
    /\ evalDeferred' = s.evalDeferred
    /\ control' = s.control
    /\ slider' = s.slider
    /\ listeners' = s.listeners
    /\ op' = [name |-> name, arg |-> arg, log |-> s.log, raised |-> s.raised]
    /\ UNCHANGED <<widgetClass, _attributeDefaults>>

\* the marker list and the idle queue have room for what a call may add
Room == _deferredUpdateRequest < MaxPending /\ evalDeferred < MaxDeferred

\* __init__ on an existing plug of the class's type: _getAttributeInformation
\* captures the plug's value as the default, _buildWidget shows it, and
\* _setupSocketConnections connects the change signals.  The plug holds a
\* value other than the zero of its kind, so the captured default is told
\* apart from the zero of an uninitialized bundle; the override node exists.
Init ==
    /\ widgetClass \in WidgetClasses
    /\ \E v \in Values(widgetClass) \ {0}, o \in Values(widgetClass) :
          /\ store = [p \in Plugs |-> IF p = PlugString THEN v ELSE o]
          /\ _attributeDefaults = v
          /\ _value = v
          /\ control = v
          /\ slider = IF widgetClass = FloatClass THEN FloatToInt(TimesFactor(v))
                      ELSE IF widgetClass = IntClass THEN v
                      ELSE 0
    /\ _isConnected = FALSE
    /\ _sceneAttributeData = EmptyDict
    /\ _deferredUpdateRequest = 0
    /\ _nodeCallbacks = <<>>
    /\ evalDeferred = 0
    /\ listeners = [control |-> 1, slider |-> IF HasSlider(widgetClass) THEN 1 ELSE 0]
    /\ op = [name |-> "__init__", arg |-> 0, log |-> <<>>, raised |-> ""]

ConnectToNode ==
    \E pull \in BOOLEAN, rejects \in BOOLEAN :
        Commit(connectToNode(CurIn(rejects), pull), "connectToNode", IF pull THEN 1 ELSE 0)

DisConnectFromNode ==
    /\ Room
    /\ Commit(disConnectFromNode(Cur), "disConnectFromNode", 0)

SetLiveMode ==
    \E state \in BOOLEAN, rejects \in BOOLEAN :
        /\ Room
        /\ Commit(setLiveMode(CurIn(rejects), state), "setLiveMode", IF state THEN 1 ELSE 0)

\* widget.value = v
SetValue ==
    \E v \in Values(widgetClass), rejects \in BOOLEAN :
        /\ Room
        /\ Commit(valueSetter(CurIn(rejects), v), "setValue", v)

ResetToDefaultValue ==
    /\ Room
    /\ \E rejects \in BOOLEAN :
          Commit(resetToDefaultValue(CurIn(rejects)), "resetToDefaultValue", 0)

\* a caller pushes a bundle: a handwritten one without an isConnected entry,
\* or one that carries a value and, as a bundle stolen from a binding in the
\* other mode does, an isConnected entry that differs from the binding's flag
PushInData ==
    \E data \in Bundles(widgetClass), rejects \in BOOLEAN :
        /\ Room
        /\ data.isConnected = IF data.value = GARBAGE_TEST THEN GARBAGE_TEST
                              ELSE IF _isConnected THEN 0 ELSE 1
        /\ Commit(pushInData(CurIn(rejects), data), "pushInData", data.value)

\* the user edits the line edit / combo box / spin box / check box: the
\* control shows the new value and emits its change signal
UserEditControl ==
    \E v \in Values(widgetClass) \ {control}, rejects \in BOOLEAN :
        /\ Room
        /\ Commit(QtEmit([CurIn(rejects) EXCEPT !.control = v], "control", v, listeners.control),
                  "userEditControl", v)

\* the user drags the slider
UserEditSlider ==
    /\ HasSlider(widgetClass)
    /\ \E p \in SliderPositions(widgetClass) \ {slider}, rejects \in BOOLEAN :
        /\ Room
        /\ Commit(QtEmit([CurIn(rejects) EXCEPT !.slider = p], "slider", p, listeners.slider),
                  "userEditSlider", p)

\* something else in Maya sets a plug: the plug is dirtied
ExternalChange ==
    \E p \in Plugs, v \in Values(widgetClass) :
        /\ Room
        /\ store[p] \notin {Missing, v}
        /\ Commit(NodeDirtyPlug([Cur EXCEPT !.store[p] = v], splitPlugString(p),
                                _nodeCallbacks),
                  "externalChange", v)

\* another plug of a node the binding listens to is dirtied, or Maya repeats
\* a notification
DirtyPlug ==
    \E i \in 1..Len(_nodeCallbacks) :
        /\ Room
        /\ Commit(NodeDirtyPlug(Cur, _nodeCallbacks[i], _nodeCallbacks),
                  "dirtyPlug", 0)

\* something else in Maya deletes the binding's attribute
ExternalDelete ==
    /\ store[PlugString] # Missing
    /\ Commit([Cur EXCEPT !.store[PlugString] = Missing], "externalDelete", 0)

\* Maya is idle and runs one callback cmds.evalDeferred scheduled
ProcessDeferredUpdateRequest ==
    /\ evalDeferred > 0
    /\ Commit(processDeferredUpdateRequest([Cur EXCEPT !.evalDeferred = @ - 1]),
              "_processDeferredUpdateRequest", 0)

Next ==
    \/ ConnectToNode
    \/ DisConnectFromNode
    \/ SetLiveMode
    \/ SetValue
    \/ ResetToDefaultValue
    \/ PushInData
    \/ UserEditControl
    \/ UserEditSlider
    \/ ExternalChange
    \/ DirtyPlug
    \/ ExternalDelete
    \/ ProcessDeferredUpdateRequest

Spec == Init /\ [][Next]_vars

-----------------------------------------------------------------------------
(* One input at a time: nothing else happens until Maya has gone idle *)

\* no marker is queued and no idle callback is outstanding
Quiescent == _deferredUpdateRequest = 0 /\ evalDeferred = 0

\* a call of the widget's interface, a user edit or an event of the scene
Input ==
    \/ ConnectToNode
    \/ DisConnectFromNode
    \/ SetLiveMode
    \/ SetValue
    \/ ResetToDefaultValue
    \/ PushInData
    \/ UserEditControl
    \/ UserEditSlider
    \/ ExternalChange
    \/ DirtyPlug
    \/ ExternalDelete

\* an input arrives only when the last one has settled; Maya, left idle, runs
\* the callbacks cmds.evalDeferred holds (low priority, when nothing else runs)
NextSettle ==
    \/ Quiescent /\ Input
    \/ ProcessDeferredUpdateRequest

\* a run of the idle callback, seen from the idle queue: Maya takes the
\* callback off the queue, and _onDirtyPlug schedules none while the callback
\* runs, because the marker list is not empty until the callback's last line
IdleCallbackRuns == evalDeferred > 0 /\ evalDeferred' = evalDeferred - 1

\* Maya, when idle, runs every callback cmds.evalDeferred holds
SpecSettle ==
    Init /\ [][NextSettle]_vars /\ WF_evalDeferred(IdleCallbackRuns)

-----------------------------------------------------------------------------
(* Construction: the checks __init__ makes before it builds the binding *)

\* VALID_ATTR_TYPES of the widget classes (the two-control classes inherit it)
VALID_ATTR_TYPES(c) ==
    IF c = StringClass THEN {"string"}
    ELSE IF c = EnumClass THEN {"enum"}
    ELSE IF IsFloat(c) THEN {"doubleLinear", "double", "float", "time", "doubleAngle"}
    ELSE IF IsInteger(c) THEN {"long", "short", "byte"}
    ELSE {"bool"}

\* the kinds some widget class supports
AttributeTypes == UNION {VALID_ATTR_TYPES(c) : c \in WidgetClasses}

\* `if cmds.getAttr(self._plugString, type=True) != attributeType: raise`
checkStoreType(s, attributeType, storeType) ==
    IF s.raised # "" THEN s
    ELSE IF storeType # attributeType
    THEN Raise(Log(Log(s, "getAttr type", storeType, 0),
                   "raise", "is of improper Given Type", 0),
               "TypeError")
    ELSE Log(s, "getAttr type", storeType, 0)

\* `if self._attributeType not in self.VALID_ATTR_TYPES: raise`
checkValidType(s, attributeType) ==
    IF s.raised # "" THEN s
    ELSE IF attributeType \notin VALID_ATTR_TYPES(widgetClass)
    THEN Raise(Log(s, "raise", "type is not supported by this widget", 0), "TypeError")
    ELSE s

\* the rest of __init__: the fields, _buildWidget and _setupSocketConnections
buildBinding(s) ==
    IF s.raised # "" THEN s
    ELSE [s EXCEPT !._value = s.store[PlugString],
                   !._isConnected = FALSE,
                   !._sceneAttributeData = EmptyDict,
                   !._deferredUpdateRequest = 0,
                   !._nodeCallbacks = <<>>,
                   !.control = s.store[PlugString],
                   !.slider = IF widgetClass = FloatClass
                              THEN FloatToInt(TimesFactor(s.store[PlugString]))
                              ELSE IF widgetClass = IntClass THEN s.store[PlugString]
                              ELSE 0,
                   !.listeners = [control |-> 1,
                                  slider |-> IF HasSlider(widgetClass) THEN 1 ELSE 0]]

\* __init__ as it would be if it tested VALID_ATTR_TYPES before the store's type
initValidTypeFirst(s, attributeType, storeType) ==
    buildBinding(checkStoreType(checkValidType(Log(s, "attributeType", attributeType, 0),
                                               attributeType),
                                attributeType, storeType))

\* __init__(node, attribute, attributeType) on a plug of type storeType
init(s, attributeType, storeType) ==
    buildBinding(checkValidType(checkStoreType(Log(s, "attributeType", attributeType, 0),
                                               attributeType, storeType),
                                attributeType))

\* no binding yet: the scene holds the plug and the override node's plug
NoBinding ==
    /\ widgetClass \in WidgetClasses
    /\ \E v \in Values(widgetClass) \ {0}, o \in Values(widgetClass) :
          store = [p \in Plugs |-> IF p = PlugString THEN v ELSE o]
    /\ _attributeDefaults = None
    /\ _value = None
    /\ control = 0
    /\ slider = 0
    /\ _isConnected = FALSE
    /\ _sceneAttributeData = EmptyDict
    /\ _deferredUpdateRequest = 0
    /\ _nodeCallbacks = <<>>
    /\ evalDeferred = 0
    /\ listeners = [control |-> 0, slider |-> 0]
    /\ op = [name |-> "", arg |-> 0, log |-> <<>>, raised |-> ""]

\* a caller constructs a widget of the class for a declared type, on a plug
\* whose type is any of the supported ones
Construct ==
    /\ _value = None
    /\ \E attributeType \in AttributeTypes, storeType \in AttributeTypes :
          /\ _value' = init(Cur, attributeType, storeType)._value
          /\ _attributeDefaults' = init(Cur, attributeType, storeType)._value
          /\ control' = init(Cur, attributeType, storeType).control
          /\ slider' = init(Cur, attributeType, storeType).slider
          /\ listeners' = init(Cur, attributeType, storeType).listeners
          /\ op' = [name |-> "__init__", arg |-> 0,
                    log |-> init(Cur, attributeType, storeType).log,
                    raised |-> init(Cur, attributeType, storeType).raised]
          /\ UNCHANGED <<widgetClass, store, _isConnected, _sceneAttributeData,
                         _deferredUpdateRequest, _nodeCallbacks, evalDeferred>>

SpecConstruct == NoBinding /\ [][Construct]_vars

-----------------------------------------------------------------------------
(* What a call did, read off its log *)

\* the number of log entries e, and of log entries e about a
RECURSIVE CountIn(_, _, _)
CountIn(log, e, a) ==
    IF log = <<>> THEN 0
    ELSE (IF Head(log).e = e /\ (a = "" \/ Head(log).a = a) THEN 1 ELSE 0)
         + CountIn(Tail(log), e, a)

\* the number of log entries e that carry the value v
RECURSIVE CountValue(_, _, _)
CountValue(log, e, v) ==
    IF log = <<>> THEN 0
    ELSE (IF Head(log).e = e /\ Head(log).v = v THEN 1 ELSE 0)
         + CountValue(Tail(log), e, v)

\* the store reads _onGetAttr made (source lines 278 and 280)
RefreshReads(log) == CountValue(log, "getAttr", 278) + CountValue(log, "getAttr", 280)

\* the markers the idle callback found queued
Markers(log) == IF log # <<>> /\ Head(log).e = "markers" THEN Head(log).v ELSE 0

\* the effective locator resolves to a plug, and the value the store holds there
LocatorResolves == EffectivePlug(Cur) \in Plugs
StoreValue == IF LocatorResolves THEN store[EffectivePlug(Cur)] ELSE Missing

\* the last call was the idle callback of a connected binding, and it found a
\* burst of N >= 1 markers (connectToNode empties the queue, and the callback
\* changes neither the connected flag nor the bundle)
IdleRefreshOfBurst ==
    /\ op.name = "_processDeferredUpdateRequest"
    /\ _isConnected
    /\ Markers(op.log) >= 1

\* the last call was a disConnectFromNode of a connected binding that returned
Disconnected ==
    /\ op.name = "disConnectFromNode"
    /\ CountIn(op.log, "call", "_onGetAttr") = 1
    /\ op.raised = ""

-----------------------------------------------------------------------------
(* The claims *)

\* C1 (as amended): for a connected binding, a burst of N >= 1 dirty
\* notifications results in exactly one _onGetAttr when the idle callback
\* fires, and that refresh reads the store once when the effective locator
\* resolves and not at all when the bundle names no override target
C1_OneRefreshPerBurst ==
    IdleRefreshOfBurst =>
        /\ CountIn(op.log, "call", "_onGetAttr") = 1
        /\ RefreshReads(op.log) = IF LocatorResolves THEN 1 ELSE 0

\* C1, witness: the idle callback found a burst of two markers and read once
C1_Witness ==
    /\ IdleRefreshOfBurst
    /\ Markers(op.log) >= 2
    /\ RefreshReads(op.log) = 1
    /\ _deferredUpdateRequest = 0

\* C1 (as stated): the idle callback of a connected binding that found N >= 1
\* markers reads the external store exactly once
C1_ExactlyOneStoreRead ==
    IdleRefreshOfBurst => CountIn(op.log, "getAttr", "") = 1

\* C2: connectToNode(pull=True) that connects a disconnected binding leaves the
\* binding's value equal to the store's value at the effective locator
C2_PullAdoptsStoreValue ==
    (/\ op.name = "connectToNode"
     /\ op.arg = 1
     /\ CountIn(op.log, "addCallback", "") = 1
     /\ _isConnected)
    => _value = StoreValue

\* C3: after disConnectFromNode on a connected binding the binding's value
\* equals the store's value at the effective locator, falsy values included
C3_DisconnectLeavesStoreValue ==
    (Disconnected /\ StoreValue # Missing) => _value = StoreValue

\* C4: after disConnectFromNode on a connected binding no subscription token is
\* held
C4_DisconnectReleasesTokens ==
    Disconnected => _nodeCallbacks = <<>>

\* C5: connectToNode on a connected binding changes neither the connected flag,
\* the held tokens, the pending markers, the cached value nor the store
C5_ReconnectIsNoOp ==
    [][(_isConnected /\ op'.name = "connectToNode")
        => UNCHANGED <<_isConnected, _nodeCallbacks, _deferredUpdateRequest,
                       _value, store>>]_vars

\* C6: in the settled state an idle refresh leaves (connected, no marker
\* pending, no idle callback outstanding, nothing rejected or raised) the
\* cached value equals the store's value at the effective locator, falsy
\* values included
C6_SettledValueIsStoreValue ==
    (/\ IdleRefreshOfBurst
     /\ _deferredUpdateRequest = 0
     /\ evalDeferred = 0
     /\ op.raised = ""
     /\ CountIn(op.log, "warning", "") = 0
     /\ StoreValue # Missing)
    => _value = StoreValue

C8_RefreshRunsNoHandler ==
    (op.name = "_processDeferredUpdateRequest" /\ CountIn(op.log, "adopt", "") = 1) =>
        /\ CountIn(op.log, "slot", "") = 0
        /\ CountIn(op.log, "setAttr", "") = 0

\* C9: in the float class with slider, after setValue(v) the slider's raw
\* position is v times the factor
C9_SliderIsValueTimesFactor ==
    (widgetClass = FloatClass /\ op.name = "setValue" /\ op.raised = "") =>
        slider = FloatToInt(TimesFactor(_value))

\* C10: in the connected float class with slider (no override bundle, the plug
\* in the scene) a user slider edit to p sets the cached value to p / factor,
\* shows it in the spin box and writes it to the store exactly once
C10_SliderEditWritesOnce ==
    (/\ widgetClass = FloatClass
     /\ op.name = "userEditSlider"
     /\ _isConnected
     /\ ~_sceneAttributeData.nonEmpty
     /\ store[PlugString] # Missing)
    => /\ _value = OverFactor(IntToFloat(op.arg))
       /\ control = OverFactor(IntToFloat(op.arg))
       /\ CountIn(op.log, "setAttr", "") = 1
       /\ CountValue(op.log, "setAttr", OverFactor(IntToFloat(op.arg))) = 1

\* C11: for a connected boolean binding, once the idle callback has run on a
\* notification of the store's field having become true, the check box is
\* checked and the binding's value is true
C11_BoolRefreshShowsTrue ==
    (/\ widgetClass = BoolClass
     /\ IdleRefreshOfBurst
     /\ StoreValue = 1)
    => control = 1 /\ _value = 1

\* C11, witness: the idle callback of a boolean binding adopted true and
\* checked the check box, which was unchecked
C11_Witness ==
    /\ widgetClass = BoolClass
    /\ IdleRefreshOfBurst
    /\ CountValue(op.log, "adopt", 1) = 1
    /\ CountValue(op.log, "slot", 1) = 1
    /\ control = 1
    /\ _value = 1

RedirectTarget(s) ==
    IF s._sceneAttributeData.nonEmpty /\ ~NoOverrideTarget(s)
    THEN s._sceneAttributeData.overridePlug
    ELSE Absent

\* C13: a fresh binding of the same class that is pushed the bundle stolen
\* from this binding has a redirect with target T exactly when this binding
\* has, and when this binding holds no bundle the fresh one holds none, so
\* its reads, writes and connectToNode resolve its own locator
C13_RedirectRoundTrip ==
    /\ RedirectTarget(pushInData(newBinding, stealMyData(Cur))) = RedirectTarget(Cur)
    /\ ~_sceneAttributeData.nonEmpty =>
           ~pushInData(newBinding, stealMyData(Cur))._sceneAttributeData.nonEmpty

\* the last call was a pushInData of the empty bundle whose setter ran to the
\* end (a non-empty bundle without a value entry never reaches the setter)
PushedEmptyBundle ==
    /\ op.name = "pushInData"
    /\ op.arg = GARBAGE_TEST
    /\ CountIn(op.log, "emit", "valueChanged") = 1

TargetlessBundle == _sceneAttributeData.nonEmpty /\ NoOverrideTarget(Cur)

\* C15: with a non-empty bundle that names no target, connectToNode (either
\* pull mode) on a binding that is not connected leaves isConnected false,
\* registers no subscription and neither reads nor writes the store
C15_TargetlessConnectIsNoOp ==
    [][(/\ op'.name = "connectToNode"
        /\ ~_isConnected
        /\ TargetlessBundle)
       => (/\ ~_isConnected'
           /\ _nodeCallbacks' = <<>>
           /\ CountIn(op'.log, "addCallback", "") = 0
           /\ CountIn(op'.log, "getAttr", "") = 0
           /\ CountIn(op'.log, "setAttr", "") = 0
           /\ store' = store
           /\ op'.raised = "")]_vars

C15_Witness ==
    /\ op.name = "connectToNode"
    /\ TargetlessBundle
    /\ ~_isConnected
    /\ _nodeCallbacks = <<>>
    /\ CountIn(op.log, "addCallback", "") = 0
    /\ store[PlugString] # Missing

\* the binding holds a bundle with a populated override target
PopulatedTarget == _sceneAttributeData.nonEmpty /\ ~NoOverrideTarget(Cur)

\* C16: while the bundle names a populated override target, every read and
\* every write of the store addresses the target and none addresses the
\* binding's own locator (the calls listed leave the bundle as it is)
C16_OnlyTheTargetIsAddressed ==
    (/\ PopulatedTarget
     /\ op.name \in {"connectToNode", "disConnectFromNode", "setLiveMode", "setValue",
                     "resetToDefaultValue", "userEditControl", "userEditSlider",
                     "_processDeferredUpdateRequest"})
    => /\ CountIn(op.log, "getAttr", PlugString) = 0
       /\ CountIn(op.log, "setAttr", PlugString) = 0

\* C17: while the binding is not connected, no setValue, user edit,
\* pushInData, resetToDefaultValue or deferred refresh reads or writes the
\* store (none of these calls changes the connected flag)
C17_DisconnectedTouchesNoStore ==
    (/\ ~_isConnected
     /\ op.name \in {"setValue", "userEditControl", "userEditSlider", "pushInData",
                     "resetToDefaultValue", "_processDeferredUpdateRequest"})
    => /\ CountIn(op.log, "getAttr", "") = 0
       /\ CountIn(op.log, "setAttr", "") = 0

\* a value set on a disconnected binding whose store holds another value, and
\* an idle callback that runs on a disconnected binding with a marker queued
C17_Witness ==
    /\ ~_isConnected
    /\ \/ /\ op.name = "setValue"
          /\ _value = op.arg
          /\ store[PlugString] \notin {Missing, op.arg}
          /\ CountIn(op.log, "emit", "valueChanged") = 1
       \/ /\ op.name = "_processDeferredUpdateRequest"
          /\ Markers(op.log) >= 1
          /\ CountIn(op.log, "call", "_onGetAttr") = 1

\* the value a setValue or a user edit sets: the argument, and for a slider
\* position of the two-control float variant the position over the factor
ValueSet(name, arg) ==
    IF name = "userEditSlider" /\ widgetClass = FloatClass
    THEN OverFactor(IntToFloat(arg))
    ELSE arg

C19_StoreFailureNeverPropagates ==
    (op.name \in {"_processDeferredUpdateRequest", "userEditControl", "userEditSlider",
                  "setValue", "connectToNode", "disConnectFromNode"})
    => /\ ~(op.raised = "ValueError")
       /\ ~(op.raised = "RuntimeError" /\ op.log # <<>>
            /\ op.log[Len(op.log)].e = "setAttr")
       /\ CountIn(op.log, "slotRaised", "ValueError") = 0

\* the machine state the next call starts from once a call has ended
AfterCall(s) == [s EXCEPT !.log = <<>>, !.raised = "", !.ret = None]

\* the binding, the idle queue and the store of a machine state
BindingAndStore(s) ==
    <<s.store, s._value, s._isConnected, s._sceneAttributeData,
      s._deferredUpdateRequest, s._nodeCallbacks, s.evalDeferred,
      s.control, s.slider, s.listeners>>

\* C20: setLiveMode(state) calls connectToNode or disConnectFromNode only when
\* state differs from isConnected (otherwise it does nothing at all), and
\* calling it twice in a row with the same state, the store unchanged in
\* between, leaves the binding and the store as calling it once does
C20_SetLiveModeIdempotent ==
    \A state \in BOOLEAN, rejects \in BOOLEAN :
        /\ state = _isConnected => setLiveMode(CurIn(rejects), state) = CurIn(rejects)
        /\ BindingAndStore(setLiveMode(AfterCall(setLiveMode(CurIn(rejects), state)),
                                       state))
           = BindingAndStore(setLiveMode(CurIn(rejects), state))

\* setLiveMode(True) has just connected the binding, or setLiveMode(False)
\* has just disconnected it, and the same call again changes nothing
C20_Witness ==
    /\ op.name = "setLiveMode"
    /\ \/ /\ op.arg = 1 /\ _isConnected
          /\ CountIn(op.log, "addCallback", "") = 1
          /\ _nodeCallbacks # <<>>
          /\ setLiveMode(Cur, TRUE) = Cur
       \/ /\ op.arg = 0 /\ ~_isConnected
          /\ CountIn(op.log, "call", "_onGetAttr") = 1
          /\ setLiveMode(Cur, FALSE) = Cur

\* C21: every adoption of a new cached value, by a user edit, by setValue or
\* by the deferred refresh of an external change, is followed by at least one
\* emission of valueChanged before the operation returns
C21_AdoptionEmitsValueChanged ==
    [][(/\ op'.name \in {"setValue", "userEditControl", "userEditSlider",
                         "_processDeferredUpdateRequest"}
        /\ _value' # _value)
       => CountIn(op'.log, "emit", "valueChanged") >= 1]_vars

\* the last call was __init__ with a declared type that differs from the
\* type the store reports for the plug
DeclaredTypeDiffers ==
    /\ op.name = "__init__"
    /\ op.log[1].a # op.log[2].a

\* C22: for every supported kind, constructing a binding whose declared kind
\* differs from the kind the store reports fails with an error and yields no
\* binding (no value, no control connected), and the error is the one of the
\* check against the store, which is made before the check of the kinds the
\* class supports, also when the class does not support the declared kind
C22_TypeMismatchFailsFirst ==
    DeclaredTypeDiffers
    => /\ op.raised = "TypeError"
       /\ op.log[Len(op.log)] = Event("raise", "is of improper Given Type", 0)
       /\ CountIn(op.log, "raise", "") = 1
       /\ _value = None
       /\ _attributeDefaults = None
       /\ listeners = [control |-> 0, slider |-> 0]

\* a declared kind the class does not support either, on a plug of another kind
C22_Witness ==
    /\ DeclaredTypeDiffers
    /\ op.log[1].a \notin VALID_ATTR_TYPES(widgetClass)
    /\ op.log[2].a \in VALID_ATTR_TYPES(widgetClass)
    /\ op.raised = "TypeError"
    /\ _value = None

\* C23: after any operation returns, whether it succeeded or failed, the
\* change listener of every control is attached exactly once (the slider's
\* where the class has a slider)
C23_ListenersAttachedOnce ==
    /\ listeners.control = 1
    /\ listeners.slider = IF HasSlider(widgetClass) THEN 1 ELSE 0

\* C24: in every reachable state at most one deferred-refresh idle callback
\* is outstanding for the binding
C24_AtMostOneIdleCallback == evalDeferred <= 1

\* C25: whenever the queue of pending refresh markers is not empty a
\* deferred-refresh idle callback is outstanding, and after every run of the
\* idle callback the queue is empty, also when the callback's read fails
C25_MarkersHaveCallback ==
    /\ _deferredUpdateRequest > 0 => evalDeferred > 0
    /\ op.name = "_processDeferredUpdateRequest" => _deferredUpdateRequest = 0

\* C26: handling a dirty notification never reads the external store and
\* never changes the cached value or the displayed controls; it only appends
\* a marker and possibly schedules the idle callback (the notification of
\* something else in Maya setting or dirtying a plug of a subscribed node)
C26_NotificationOnlyQueues ==
    [][(op'.name \in {"externalChange", "dirtyPlug"})
       => (/\ CountIn(op'.log, "getAttr", "") = 0
           /\ CountIn(op'.log, "call", "_onGetAttr") = 0
           /\ CountIn(op'.log, "emit", "") = 0
           /\ Len(op'.log) = CountIn(op'.log, "_onDirtyPlug", "")
                             + CountIn(op'.log, "evalDeferred", "")
           /\ UNCHANGED <<_value, control, slider, listeners, _isConnected,
                          _nodeCallbacks, _sceneAttributeData>>
           /\ _deferredUpdateRequest'
              = _deferredUpdateRequest + CountIn(op'.log, "_onDirtyPlug", "")
           /\ evalDeferred' = evalDeferred + CountIn(op'.log, "evalDeferred", "")
           /\ evalDeferred' - evalDeferred
              = IF _deferredUpdateRequest = 0 /\ _deferredUpdateRequest' > 0
                THEN 1 ELSE 0)]_vars

\* a notification that queued the first marker and scheduled the callback,
\* with the store holding a value the binding has not adopted
C26_Witness ==
    /\ op.name = "externalChange"
    /\ CountIn(op.log, "_onDirtyPlug", "") = 1
    /\ CountIn(op.log, "evalDeferred", "") = 1
    /\ _isConnected
    /\ _deferredUpdateRequest = 1
    /\ LocatorResolves
    /\ StoreValue = op.arg
    /\ _value # op.arg

\* the place of the first log entry e in the log, 0 when there is none
RECURSIVE PlaceOf(_, _)
PlaceOf(log, e) ==
    IF log = <<>> THEN 0
    ELSE IF Head(log).e = e THEN 1
    ELSE IF PlaceOf(Tail(log), e) = 0 THEN 0
    ELSE 1 + PlaceOf(Tail(log), e)

\* C27: when connectToNode(pull=False) is called on a disconnected binding
\* whose effective locator exists and the store accepts the write (no write
\* of the call is rejected), then on return the store's value at the
\* effective locator is the cached value, exactly one subscription is held,
\* isConnected is true, and the write was made before the subscription
C27_PushConnectWritesThenSubscribes ==
    [][(/\ op'.name = "connectToNode"
        /\ op'.arg = 0
        /\ ~_isConnected
        /\ LocatorResolves
        /\ StoreValue # Missing
        /\ CountIn(op'.log, "warning", "") = 0)
       => (/\ store'[EffectivePlug(Cur)] = _value'
           /\ _value' = _value
           /\ Len(_nodeCallbacks') = 1
           /\ _isConnected'
           /\ CountIn(op'.log, "setAttr", EffectivePlug(Cur)) = 1
           /\ CountIn(op'.log, "addCallback", "") = 1
           /\ PlaceOf(op'.log, "setAttr") < PlaceOf(op'.log, "addCallback"))]_vars

\* the machine state r a call left has the connected flag and the tokens of
\* the binding as they are now, and the call added and released no token and
\* did not fail on a property it must not assign
KeepsConnection(r) ==
    /\ r._isConnected = _isConnected
    /\ r._nodeCallbacks = _nodeCallbacks
    /\ CountIn(r.log, "addCallback", "") = 0
    /\ CountIn(r.log, "removeCallback", "") = 0
    /\ r.raised # "AttributeError"

\* C28: pushInData with a non-empty bundle never changes the binding's
\* identity and connection fields, even when the bundle carries different
\* values for them (the isConnected entry stands for the five), and never
\* registers or releases a subscription
C28_PushKeepsIdentityAndConnection ==
    \A data \in Bundles(widgetClass) :
        data.isConnected = (IF _isConnected THEN 0 ELSE 1)
        => KeepsConnection(pushInData(Cur, data))

\* a connected binding that was pushed a bundle carrying a value and
\* isConnected False: it is still connected and holds its token
C28_Witness ==
    /\ op.name = "pushInData"
    /\ op.arg # GARBAGE_TEST
    /\ op.raised = ""
    /\ _sceneAttributeData.nonEmpty
    /\ _isConnected
    /\ Len(_nodeCallbacks) = 1
    /\ CountIn(op.log, "removeCallback", "") = 0
    /\ _value = op.arg

\* the binding is connected, its effective locator and its own locator hold
\* a value, so its writes reach the store and come back as notifications
WritesComeBack ==
    /\ _isConnected
    /\ LocatorResolves
    /\ StoreValue # Missing
    /\ store[PlugString] # Missing
    /\ splitPlugString(EffectivePlug(Cur)) \in {_nodeCallbacks[i] : i \in 1..Len(_nodeCallbacks)}

\* C29: no feedback loop: once one user edit, setValue or external change on
\* such a binding has queued a marker or an idle callback and no further
\* input follows, the system reaches a quiescent state (no marker pending, no
\* idle callback outstanding); nothing runs in a quiescent state without an
\* input, so no store write is issued after that
C29_SettlesAfterOneInput == (WritesComeBack /\ ~Quiescent) ~> Quiescent

\* C30: for every single-control variant (line edit, combo box, check box,
\* simple spin box), after a setValue(v) that returned, or a deferred refresh
\* that adopted v, the control displays v: the displayed value is the cached
\* value
C30_ControlShowsCachedValue ==
    (/\ ~HasSlider(widgetClass)
     /\ \/ op.name = "setValue" /\ op.raised = ""
        \/ /\ op.name = "_processDeferredUpdateRequest"
           /\ CountIn(op.log, "adopt", "") = 1
           /\ op.raised = "")
    => control = _value

\* C31: in every reachable state, after any sequence of connectToNode,
\* disConnectFromNode, setLiveMode and pushInData calls (and of every other
\* call), the binding holds at most one subscription token
C31_AtMostOneToken == Len(_nodeCallbacks) <= 1

\* a binding that was connected, disconnected and is connected again: the
\* call released the token of the first connection and registered a new one
C31_Witness ==
    /\ op.name \in {"connectToNode", "setLiveMode"}
    /\ CountIn(op.log, "removeCallback", "") = 1
    /\ CountIn(op.log, "addCallback", "") = 1
    /\ _isConnected
    /\ Len(_nodeCallbacks) = 1

\* C32: after disConnectFromNode returns and until the next connectToNode
\* (that is, while the binding is not connected), an external change to the
\* store, a dirty notification and an idle callback, the one scheduled before
\* the disconnect included, neither change the cached value nor read the store
C32_DisconnectedIgnoresTheStore ==
    [][(/\ ~_isConnected
        /\ op'.name \in {"externalChange", "dirtyPlug", "_processDeferredUpdateRequest"})
       => /\ _value' = _value
          /\ CountIn(op'.log, "getAttr", "") = 0]_vars

\* a binding that was connected and disconnected (it still holds the token of
\* its connection): its idle callback ran with a marker queued while the store
\* held a value other than the cached one, and the cached value is as it was
C32_Witness ==
    /\ op.name = "_processDeferredUpdateRequest"
    /\ ~_isConnected
    /\ _nodeCallbacks # <<>>
    /\ Markers(op.log) >= 1
    /\ CountIn(op.log, "call", "_onGetAttr") = 1
    /\ LocatorResolves
    /\ StoreValue \notin {Missing, 0, _value}

\* C33: whenever a binding is connected, the object its subscription listens
\* to is the object of the effective locator it reads and writes, also after
\* pushInData installed or changed the override-redirect target while the
\* binding was connected
C33_SubscriptionFollowsLocator ==
    (_isConnected /\ LocatorResolves)
    => \A i \in 1..Len(_nodeCallbacks) :
           _nodeCallbacks[i] = getNodeFromPlugString(EffectivePlug(Cur))

====
